---- MODULE Spec2Model ----
(***************************************************************************)
(* The S3-backed archive of internal/archive/archive.go: one S3 instance   *)
(* (cfg, sums, fetched, m) used by a set of client goroutines that call    *)
(* History and Put against a versioned bucket.  The bucket is the          *)
(* newest-first version listing that ListObjectVersions pages through.     *)
(***************************************************************************)
EXTENDS Integers, Sequences, FiniteSets, TLC

\* ------------------------------------------------------------------ bounds
NumArtifacts == 3     \* distinct serializable artifacts / object bodies
MaxCap       == 2     \* SpecWalk: largest configured max_versions
NumClients   == 2     \* goroutines sharing the instance
SeqCap       == 1     \* Spec, SpecConc: largest configured max_versions
MaxInit      == 1     \* Spec: versions in the bucket at construction
MaxCalls     == 3     \* Spec: History/Put calls issued in one behaviour
AgainInit    == 2     \* SpecAgain: versions in the bucket at construction
AgainCalls   == 2     \* SpecAgain: calls issued in one behaviour
HistLen      == 2     \* SpecCheck: entries the archive hands to Check
NewInit      == 0     \* SpecNew: versions in the bucket at construction
NewCalls     == 3     \* SpecNew: calls issued in one behaviour
WalkInit     == 4     \* SpecWalk: versions in the bucket at construction
ConcInit     == 0     \* SpecConc: versions in the bucket at construction
ConcCalls    == 2     \* SpecConc: calls issued in one behaviour

\* ------------------------------------------------------- program constants
BootstrapMax == 100   \* a.cfg.MaxVersions = 100 in Put
MaxKeysLimit == 1000  \* max < 1000 in history

Key     == "k"        \* cfg.Key
Sibling == "k.bak"    \* another key of the bucket that has Key as prefix

Clients   == 1..NumClients
Artifacts == 1..NumArtifacts
BadArtifact == 0      \* a value json.Marshal rejects (a channel, a func)
NoBytes == "<nil>"

\* json.Marshal(v): the decimal text of a number, an error for BadArtifact
Marshal(v) == IF v = BadArtifact THEN NoBytes ELSE ToString(v)

Bodies == {Marshal(v) : v \in Artifacts}

\* hex.EncodeToString(md5.Sum(b)): a digest, distinct for distinct bodies
Md5Hex(b) == <<"md5", b>>

Min(a, b) == IF a < b THEN a ELSE b

\* ------------------------------------------------------------------- state
VARIABLES
  bucket,      \* the ListObjectVersions listing, newest first: [key, vid, body]
  maxVersions, \* a.cfg.MaxVersions
  sums,        \* a.sums
  fetched,     \* a.fetched
  m,           \* a.m: TRUE while locked
  loc,         \* per client: position and locals of its current call
  last,        \* the call that returned last
  built,       \* number of versions in the bucket when the instance was built
  budget,      \* calls the clients may still issue
  named,       \* artifacts 1..named have been stored or passed to Put so far
  configured,  \* max_versions as given at construction
  cfgType,     \* cfg.Type as given to New
  archive,     \* what New returned as Archive: "unbuilt" before the call,
               \* "Empty", "S3", "nilS3" (a nil *S3) or "nil"
  newErr,      \* the error New returned
  returnedIn,  \* per fingerprint: in how many results of successful History
               \* calls of the instance it has appeared
  walked,      \* some a.history(ctx) of the instance has returned a nil error
  chk          \* Resource.Check: position, locals and what it returned

vars == <<bucket, maxVersions, sums, fetched, m, loc, last, budget, named, built,
          configured, cfgType, archive, newErr, returnedIn, walked, chk>>

\* everything but the locals of Check
archiveVars ==
  <<bucket, maxVersions, sums, fetched, m, loc, last, budget, named, built,
    configured, cfgType, archive, newErr, returnedIn, walked>>

NoMarker == [key |-> "<nil>", vid |-> 0]

\* a completed call: what was called, with what, and the error it returned
Entry(l, err) == [op |-> l.op, arg |-> l.arg, err |-> err, capped |-> l.capped]
NoCall == [op |-> "none", arg |-> BadArtifact, err |-> "ok", capped |-> FALSE]

\* Check before it is called
NoCheck ==
  [pc |-> "start", given |-> FALSE, mapping |-> FALSE, versions |-> <<>>,
   herr |-> "none", perr |-> "none", ret |-> <<>>, err |-> "none"]

\* the locals of a client that has not called anything yet
Fresh(pc) ==
  [pc |-> pc, op |-> "none", arg |-> BadArtifact, b |-> NoBytes,
   boot |-> FALSE, versions |-> <<>>, n |-> 0, marker |-> NoMarker,
   result |-> <<>>, err |-> "ok", herr |-> "ok", perr |-> "none",
   truncatedEmpty |-> FALSE, capped |-> FALSE,
   nList |-> 0, nGet |-> 0, nPut |-> 0, dangling |-> FALSE, overlap |-> FALSE,
   sums0 |-> {}, fetched0 |-> FALSE, max0 |-> 0, prev |-> NoCall]

\* a bucket written by a sequence of earlier PutObject calls: version ids
\* count the writes, the newest version comes first
Item(key, vid, body) == [key |-> key, vid |-> vid, body |-> body]

KeyBodies(bkt) == {bkt[i].body : i \in {j \in 1..Len(bkt) : bkt[j].key = Key}}

\* The next write to a bucket: a version of a sibling key, or a version of Key
\* whose body is one already stored or the first artifact not stored yet
\* (bodies are only ever compared for equality, so which artifact comes first
\* does not matter)
NextWrites(bkt) ==
  {<<Sibling, "x">>} \cup
  {<<Key, Marshal(v)>> : v \in {w \in Artifacts : w <= Cardinality(KeyBodies(bkt)) + 1}}

RECURSIVE Buckets(_)
Buckets(len) ==
  IF len = 0 THEN {<<>>}
  ELSE LET shorter == Buckets(len - 1) IN
       shorter \cup
       UNION {{<<Item(c[1], Len(s) + 1, c[2])>> \o s : c \in NextWrites(s)} :
                s \in {t \in shorter : Len(t) = len - 1}}

\* -------------------------------------------------------------- S3.reverse
\* reverse that leaves the slice as it is
reverseNoop(versions) == versions

RECURSIVE reverse(_)
reverse(versions) ==
  IF versions = <<>> THEN <<>>
  ELSE Append(reverse(Tail(versions)), Head(versions))

\* ---------------------------------------------------------- S3.history body
\* if max := a.cfg.MaxVersions; max > 0 && max < 1000 { params.MaxKeys = max }
MaxKeys(max) == IF max > 0 /\ max < MaxKeysLimit THEN max ELSE MaxKeysLimit

\* a key test that accepts every key the prefix listing returns
KeyMatchesPrefix(key) == TRUE

\* if *item.Key != a.cfg.Key { continue }
KeyMatches(key) == key = Key

\* a last-page test that trusts the truncation flag alone
LastPageByFlag(isTruncated, len) == ~isTruncated

\* if !page.IsTruncated || len(page.Versions) == 0
LastPage(isTruncated, len) == ~isTruncated \/ len = 0

\* a digest lookup that never finds anything
SeenNever(sum, set) == FALSE

\* if _, ok := a.sums[sum]; ok
Seen(sum, set) == sum \in set

\* the cap test off by one
CapReachedLate(max, n) == max > 0 /\ n > max

\* if max := a.cfg.MaxVersions; max > 0 && n >= max
CapReached(max, n) == max > 0 /\ n >= max

\* an error return that hands back what was accumulated
ErrorResultPartial(versions) == versions

\* return nil, err
ErrorResult(versions) == <<>>

\* the position in the listing that a (key-marker, version-id-marker) pair
\* resumes after; no marker starts at the top
After(bkt, marker) ==
  IF marker = NoMarker THEN 0
  ELSE LET hits == {i \in 1..Len(bkt) :
                      bkt[i].key = marker.key /\ bkt[i].vid = marker.vid}
       IN  IF hits = {} THEN Len(bkt) ELSE CHOOSE i \in hits : TRUE

\* an assignment that starts the set anew
RecordedAlone(set, sum) == {sum}

\* a.sums[sum] = struct{}{}
Recorded(set, sum) == set \cup {sum}

\* for _, item := range page.Versions { ... }: st carries versions, n, sums,
\* the GetObject count and lastKey/lastVersionID; failAt is the index of the
\* item whose GetObject fails (0: none).  out is "end" (range exhausted),
\* "cap" (early return) or "get" (download error).
RECURSIVE Range(_, _, _, _, _)
Range(page, i, st, failAt, max) ==
  IF i > Len(page) THEN [st EXCEPT !.out = "end"]
  ELSE
    LET item == page[i]
        st1  == [st EXCEPT !.last = [key |-> item.key, vid |-> item.vid]]
    IN
    IF ~KeyMatches(item.key) THEN Range(page, i + 1, st1, failAt, max)
    ELSE
      LET st2 == [st1 EXCEPT !.nGet = @ + 1] IN
      IF failAt = i THEN [st2 EXCEPT !.out = "get"]
      ELSE
        LET sum == Md5Hex(item.body) IN
        IF Seen(sum, st2.sums) THEN Range(page, i + 1, st2, failAt, max)
        ELSE
          LET st3 == [st2 EXCEPT !.versions = Append(@, item.body),
                                 !.n = @ + 1,
                                 !.sums = Recorded(@, sum)]
          IN
          IF CapReached(max, st3.n) THEN [st3 EXCEPT !.out = "cap"]
          ELSE Range(page, i + 1, st3, failAt, max)

\* ------------------------------------------------------------ call returns
Active(l) == l.pc \in {"lock", "walk", "put"}
Holding(l) == l.pc \in {"walk", "put"}
NoPanic == \A q \in Clients : loc[q].pc # "panic"

\* the call returns (result, err); the deferred a.m.Unlock() runs
Return(p, l, result, err) ==
  /\ loc' = [loc EXCEPT ![p] = [l EXCEPT !.pc = "ret", !.result = result,
                                         !.err = err, !.versions = result]]
  /\ last' = Entry(l, err)
  /\ m' = FALSE

\* a bootstrap whose error is dropped
BootstrapFailedIgnored(err) == FALSE

\* if err != nil { return fmt.Errorf("error fetching history: %v", err) }
BootstrapFailed(err) == err # "ok"

\* the fingerprints of the contents a successful History hands to its caller
\* are counted once more each
Counted(counts, versions) ==
  [f \in DOMAIN counts |->
     IF \E i \in 1..Len(versions) : Md5Hex(versions[i]) = f
     THEN counts[f] + 1 ELSE counts[f]]

\* history returned (versions, err) to its caller: History hands it on, Put
\* checks the error and goes on to the write
HistoryReturns(p, l0, versions, err) ==
  LET l == [l0 EXCEPT !.herr = err] IN
  /\ walked' = (walked \/ err = "ok")
  /\ IF ~l.boot
     THEN /\ Return(p, l, versions, err)
          /\ returnedIn' = IF err = "ok" THEN Counted(returnedIn, versions)
                           ELSE returnedIn
     ELSE /\ returnedIn' = returnedIn
          /\ IF BootstrapFailed(err) THEN Return(p, l, <<>>, "history")
             ELSE /\ loc' = [loc EXCEPT ![p] = [l EXCEPT !.pc = "put",
                                                         !.versions = <<>>,
                                                         !.n = 0,
                                                         !.marker = NoMarker]]
                  /\ m' = m
                  /\ last' = last


\* ------------------------------------------------------------------ actions
\* a client enters a.History(ctx) or a.Put(ctx, v) and blocks on a.m.Lock().
\* Artifacts are interchangeable, so a client passes one that was named
\* before or the first one that was not.
Call(p, op, v) ==
  /\ archive = "S3"
  /\ NoPanic
  /\ loc[p].pc \in {"idle", "ret"}
  /\ budget > 0
  /\ budget' = budget - 1
  /\ v <= named + 1
  /\ named' = IF v > named THEN v ELSE named
  /\ LET others == \E q \in Clients \ {p} : Active(loc[q]) IN
     loc' = [q \in Clients |->
               IF q = p
               THEN [Fresh("lock") EXCEPT !.op = op, !.arg = v, !.overlap = others]
               ELSE IF Active(loc[q]) THEN [loc[q] EXCEPT !.overlap = TRUE]
               ELSE loc[q]]
  /\ UNCHANGED <<bucket, maxVersions, sums, fetched, m, last, built, configured, cfgType, archive, newErr, returnedIn, walked, chk>>

\* a lock that never blocks
CanLockAlways(mm) == TRUE

\* a.m.Lock() succeeds only on an unlocked mutex
CanLock(mm) == ~mm

\* History: a.m.Lock(); defer a.m.Unlock(); return a.history(ctx)
AcquireHistory(p) ==
  /\ NoPanic
  /\ loc[p].pc = "lock" /\ loc[p].op = "History"
  /\ CanLock(m)
  /\ m' = TRUE
  /\ loc' = [loc EXCEPT ![p] = [@ EXCEPT !.pc = "walk", !.sums0 = sums,
                                         !.fetched0 = fetched,
                                         !.max0 = maxVersions, !.prev = last]]
  /\ UNCHANGED <<bucket, maxVersions, sums, fetched, last, budget, named, built, configured, cfgType, archive, newErr, returnedIn, walked, chk>>

\* a Put that fetches the history every time
NeedsBootstrapAlways(isFetched) == TRUE

\* if !a.fetched
NeedsBootstrap(isFetched) == ~isFetched

\* Put: a.m.Lock(); json.Marshal(v); if !a.fetched { a.cfg.MaxVersions = 100;
\* a.history(ctx) } ...
AcquirePut(p) ==
  /\ NoPanic
  /\ loc[p].pc = "lock" /\ loc[p].op = "Put"
  /\ CanLock(m)
  /\ LET b == Marshal(loc[p].arg)
         l == [loc[p] EXCEPT !.b = b, !.sums0 = sums, !.fetched0 = fetched,
                             !.max0 = maxVersions, !.prev = last]
     IN
     IF b = NoBytes
     THEN /\ Return(p, l, <<>>, "marshal")
          /\ UNCHANGED maxVersions
     ELSE IF NeedsBootstrap(fetched)
     THEN /\ maxVersions' = BootstrapMax
          /\ loc' = [loc EXCEPT ![p] = [l EXCEPT !.pc = "walk", !.boot = TRUE]]
          /\ m' = TRUE
          /\ last' = last
     ELSE /\ loc' = [loc EXCEPT ![p] = [l EXCEPT !.pc = "put"]]
          /\ m' = TRUE
          /\ last' = last
          /\ UNCHANGED maxVersions
  /\ UNCHANGED <<bucket, sums, fetched, budget, named, built, configured, cfgType, archive, newErr, returnedIn, walked, chk>>

\* page, err := a.client.ListObjectVersions(ctx, params); err != nil
ListFails(p) ==
  /\ NoPanic
  /\ loc[p].pc = "walk"
  /\ HistoryReturns(p, [loc[p] EXCEPT !.nList = @ + 1],
                    ErrorResult(loc[p].versions), "list")
  /\ UNCHANGED <<bucket, maxVersions, sums, fetched, budget, named, built, configured, cfgType, archive, newErr, chk>>

\* one iteration of the for loop of history: the backend serves the next
\* `size` entries of the listing (none when nothing is left), says whether
\* more remain and how it marks the continuation (next: "set", "empty" or
\* "absent"); the page's items are ranged over, then the walk returns or
\* moves its markers
Page(p, size, isTruncated, next, failAt) ==
  LET l     == loc[p]
      start == After(bucket, l.marker)
      page  == SubSeq(bucket, start + 1, start + size)
      st0   == [versions |-> l.versions, n |-> l.n, sums |-> sums,
                nGet |-> l.nGet, last |-> [key |-> "", vid |-> 0],
                out |-> "end"]
      st    == Range(page, 1, st0, failAt, maxVersions)
      l1    == [l EXCEPT !.nList = @ + 1, !.nGet = st.nGet, !.n = st.n,
                         !.versions = st.versions,
                         !.truncatedEmpty = @ \/ (isTruncated /\ Len(page) = 0)]
  IN
  /\ sums' = st.sums
  /\ CASE st.out = "get" ->
            /\ HistoryReturns(p, l1, ErrorResult(st.versions), "get")
            /\ UNCHANGED fetched
       [] st.out = "cap" ->
            /\ fetched' = TRUE
            /\ HistoryReturns(p, [l1 EXCEPT !.capped = ~l.boot],
                              reverse(st.versions), "ok")
       [] st.out = "end" /\ LastPage(isTruncated, Len(page)) ->
            /\ fetched' = TRUE
            /\ HistoryReturns(p, l1, reverse(st.versions), "ok")
       [] OTHER ->
            \* params.KeyMarker, params.VersionIdMarker =
            \*   page.NextKeyMarker, page.NextVersionIdMarker
            \* if *params.KeyMarker == "" { ... = &lastKey, &lastVersionID }
            /\ UNCHANGED <<fetched, last, returnedIn, walked>>
            /\ IF next = "absent"
               THEN \* nil pointer dereference: the goroutine panics, the
                    \* deferred Unlock runs, the process dies
                    /\ loc' = [loc EXCEPT ![p] = [l1 EXCEPT !.pc = "panic"]]
                    /\ m' = FALSE
               ELSE /\ loc' = [loc EXCEPT ![p] =
                          [l1 EXCEPT !.marker = IF next = "empty" THEN st.last
                                                ELSE IF size = 0 THEN l.marker
                                                ELSE [key |-> page[size].key,
                                                      vid |-> page[size].vid],
                                     !.dangling = @ \/ next = "empty"]]
                    /\ m' = m

WalkPage(p) ==
  /\ NoPanic
  /\ loc[p].pc = "walk"
  /\ LET start == After(bucket, loc[p].marker)
         rem   == Len(bucket) - start
     IN
     IF rem = 0
     THEN \E t \in BOOLEAN : Page(p, 0, t, "set", 0)
     ELSE \E size \in 1..Min(rem, MaxKeys(maxVersions)) :
            LET more == start + size < Len(bucket) IN
            \E next \in (IF more THEN {"set", "empty", "absent"} ELSE {"set"}),
               failAt \in {0} \cup {i \in 1..size : bucket[start + i].key = Key} :
              Page(p, size, more, next, failAt)
  /\ UNCHANGED <<bucket, maxVersions, budget, named, built, configured, cfgType, archive, newErr, chk>>

\* a Put that returns early when the digest is already known
SkipsWriteIfSeen(sum, set) == sum \in set

\* if _, ok := a.sums[sum]; ok { a.log("skipping archival ...") }: the check
\* only logs, the write below is made in either case
SkipsWrite(sum, set) == FALSE

\* sum check, then a.client.PutObject(ctx, params); return err
PutObject(p, ok) ==
  /\ NoPanic
  /\ loc[p].pc = "put"
  /\ IF SkipsWrite(Md5Hex(loc[p].b), sums)
     THEN /\ UNCHANGED bucket
          /\ Return(p, loc[p], <<>>, "ok")
     ELSE LET l == [loc[p] EXCEPT !.nPut = @ + 1,
                                  !.perr = IF ok THEN "ok" ELSE "put"]
          IN
          /\ bucket' = IF ok THEN <<Item(Key, Len(bucket) + 1, l.b)>> \o bucket
                       ELSE bucket
          /\ Return(p, l, <<>>, l.perr)
  /\ UNCHANGED <<maxVersions, sums, fetched, budget, named, built, configured, cfgType, archive, newErr, returnedIn, walked, chk>>

\* ------------------------------------------------- factory, no-op archive
\* values of cfg.Type: unset, the two supported ones, two others
Types == {"", "empty", "s3", "gcs", "S3"}

\* a switch that falls back to the no-op archive
ImplementationLenient(type) ==
  IF type = "s3" THEN "S3" ELSE "Empty"

\* switch cfg.Type { case "", "empty": ... case "s3": ... default: ... }
Implementation(type) ==
  CASE type \in {"", "empty"} -> "Empty"
    [] type = "s3"            -> "S3"
    [] OTHER                  -> "unsupported"

\* fmt.Errorf("unsupported type: %s", cfg.Type)
Unsupported(type) == <<"unsupported type: ", type>>

\* New: &Empty{}, or NewS3 (which returns a nil *S3 and an error when
\* config.LoadDefaultConfig fails: loads = FALSE), or nil and an error
New(loads) ==
  /\ archive = "unbuilt"
  /\ LET impl == Implementation(cfgType) IN
     CASE impl = "Empty" ->
            /\ archive' = "Empty"
            /\ newErr' = "ok"
            /\ loc' = [loc EXCEPT ![1] = Fresh("idle")]
       [] impl = "S3" /\ loads ->
            /\ archive' = "S3"
            /\ newErr' = "ok"
            /\ loc' = [loc EXCEPT ![1] = Fresh("idle")]
       [] impl = "S3" /\ ~loads ->
            /\ archive' = "nilS3"
            /\ newErr' = "error loading aws config"
            /\ loc' = loc
       [] OTHER ->
            /\ archive' = "nil"
            /\ newErr' = Unsupported(cfgType)
            /\ loc' = loc
  /\ UNCHANGED <<bucket, maxVersions, sums, fetched, m, last, budget, named,
                 built, configured, cfgType, returnedIn, walked, chk>>

\* a no-op Put that serializes its artifact first
EmptyPutMarshals(v) == IF Marshal(v) = NoBytes THEN "marshal" ELSE "ok"

\* func (a *Empty) Put(context.Context, interface{}) error { return nil }
EmptyPutErr(v) == "ok"

\* a call on the no-op archive returns at once
EmptyReturn(p, op, v, err) ==
  /\ archive = "Empty"
  /\ loc[p].pc \in {"idle", "ret"}
  /\ budget > 0
  /\ budget' = budget - 1
  /\ v <= named + 1
  /\ named' = IF v > named THEN v ELSE named
  /\ LET l == [Fresh("ret") EXCEPT !.op = op, !.arg = v, !.err = err,
                                   !.prev = last]
     IN
     /\ loc' = [loc EXCEPT ![p] = l]
     /\ last' = Entry(l, err)
  /\ UNCHANGED <<bucket, maxVersions, sums, fetched, m, built, configured,
                 cfgType, archive, newErr, returnedIn, walked, chk>>

\* func (a *Empty) History(context.Context) ([][]byte, error) { return nil, nil }
EmptyHistory(p) == EmptyReturn(p, "History", BadArtifact, "ok")

EmptyPut(p, v) == EmptyReturn(p, "Put", v, EmptyPutErr(v))

\* ----------------------------------------------------- main.go: Check
\* what r.archive.History may hand back: entries that are JSON objects
\* ("obj") and entries that are not ("bad")
RECURSIVE Histories(_)
Histories(n) ==
  IF n = 0 THEN {<<>>}
  ELSE Histories(n - 1) \cup
       {Append(h, x) : h \in {g \in Histories(n - 1) : Len(g) = n - 1},
                       x \in {"obj", "bad"}}

\* return versions, nil / return nil, fmt.Errorf(...)
CheckReturns(c, ret, err) ==
  chk' = [c EXCEPT !.pc = "done", !.ret = ret, !.err = err]

\* if v != nil { versions = append(versions, *v) } else { ... }
CheckBegin(given) ==
  /\ chk.pc = "start"
  /\ chk' = IF given
            THEN [chk EXCEPT !.given = TRUE, !.versions = <<"v">>, !.pc = "config"]
            ELSE [chk EXCEPT !.pc = "history"]
  /\ UNCHANGED archiveVars

\* history, err := r.archive.History(ctx); the error is printed only; then
\* every entry is unmarshalled and appended.  The no-op archive returns
\* nil, nil; the S3 archive returns its entries, or an error with what
\* ErrorResult leaves of them.
CheckHistory(items, ok) ==
  /\ chk.pc = "history"
  /\ archive = "Empty" => (items = <<>> /\ ok)
  /\ LET history == IF ok THEN items ELSE ErrorResult(items)
         c       == [chk EXCEPT !.herr = IF ok THEN "ok" ELSE "history"]
     IN
     IF \E i \in 1..Len(history) : history[i] = "bad"
     THEN CheckReturns(c, <<>>, "error unmarshalling historic version")
     ELSE chk' = [c EXCEPT !.versions = history, !.pc = "config"]
  /\ UNCHANGED archiveVars

\* write check.spc and the supporting files, parse version_mapping when one
\* is configured
CheckConfig(mapping, out) ==
  /\ chk.pc = "config"
  /\ out = "error parsing version_mapping" => mapping
  /\ IF out = "ok"
     THEN chk' = [chk EXCEPT !.mapping = mapping, !.pc = "query"]
     ELSE CheckReturns(chk, <<>>, out)
  /\ UNCHANGED archiveVars

\* cmd.Run(); gjson.ParseBytes(outb.Bytes())
CheckQuery(out) ==
  /\ chk.pc = "query"
  /\ CASE out = "rows" -> chk' = [chk EXCEPT !.pc = "data"]
       [] out = "null" -> CheckReturns(chk, chk.versions, "ok")
       [] OTHER        -> CheckReturns(chk, <<>>, "error executing query")
  /\ UNCHANGED archiveVars

\* data from mapping.Query or from the first row; data == nil returns early
CheckData(out) ==
  /\ chk.pc = "data"
  /\ out \in IF chk.mapping
              THEN {"data", "nil", "error executing version_mapping",
                    "invalid version_mapping result"}
              ELSE {"data", "error unmarshalling result"}
  /\ CASE out = "data" -> chk' = [chk EXCEPT !.pc = "diff"]
       [] out = "nil"  -> CheckReturns(chk, chk.versions, "ok")
       [] OTHER        -> CheckReturns(chk, <<>>, out)
  /\ UNCHANGED archiveVars

\* if v != nil { ... jsondiff.Compare(orig, nextb, ...) ... }
CheckDiff(out) ==
  /\ chk.pc = "diff"
  /\ out \in IF chk.given
              THEN {"NoMatch", "FullMatch", "error serializing version",
                    "error diffing versions"}
              ELSE {"NoMatch"}
  /\ CASE out = "NoMatch"   -> chk' = [chk EXCEPT !.pc = "put"]
       [] out = "FullMatch" -> CheckReturns(chk, chk.versions, "ok")
       [] OTHER             -> CheckReturns(chk, <<>>, out)
  /\ UNCHANGED archiveVars

\* a Check that gives up when the archive cannot record the version
PutErrorFatal(perr) == perr # "ok"

\* if err := r.archive.Put(ctx, &next); err != nil { color.Red(...) }
PutErrorReturned(perr) == FALSE

\* versions = append(versions, next); r.archive.Put(ctx, &next);
\* return versions, nil.  The no-op archive's Put returns nil.
CheckPut(ok) ==
  /\ chk.pc = "put"
  /\ archive = "Empty" => ok
  /\ LET c == [chk EXCEPT !.versions = Append(@, "next"),
                          !.perr = IF ok THEN "ok" ELSE "put"]
     IN
     IF PutErrorReturned(c.perr)
     THEN CheckReturns(c, <<>>, "error recording new version in archive")
     ELSE CheckReturns(c, c.versions, "ok")
  /\ UNCHANGED archiveVars

ConfigOutcomes ==
  {"ok", "error writing configuration", "error writing file",
   "error parsing version_mapping"}

DataOutcomes ==
  {"data", "nil", "error executing version_mapping",
   "invalid version_mapping result", "error unmarshalling result"}

DiffOutcomes ==
  {"NoMatch", "FullMatch", "error serializing version",
   "error diffing versions"}

NextCheck ==
  \/ \E given \in BOOLEAN : CheckBegin(given)
  \/ \E items \in Histories(HistLen), ok \in BOOLEAN : CheckHistory(items, ok)
  \/ \E mapping \in BOOLEAN, out \in ConfigOutcomes : CheckConfig(mapping, out)
  \/ \E out \in {"rows", "null", "error"} : CheckQuery(out)
  \/ \E out \in DataOutcomes : CheckData(out)
  \/ \E out \in DiffOutcomes : CheckDiff(out)
  \/ \E ok \in BOOLEAN : CheckPut(ok)

\* --------------------------------------------------------- specifications
InitWith(clients, maxInit, maxCap, nCalls) ==
  /\ bucket \in Buckets(maxInit)
  /\ configured \in 0..maxCap
  /\ maxVersions = configured
  /\ sums = {}
  /\ fetched = FALSE
  /\ m = FALSE
  /\ loc = [q \in Clients |-> IF q \in clients THEN Fresh("idle") ELSE Fresh("off")]
  /\ last = NoCall
  /\ built = Len(bucket)
  /\ budget = nCalls
  /\ named = Cardinality(KeyBodies(bucket))
  /\ returnedIn = [f \in {Md5Hex(b) : b \in Bodies} |-> 0]
  /\ walked = FALSE
  /\ chk = NoCheck

\* New has returned the instance and no error
Built == cfgType = "s3" /\ archive = "S3" /\ newErr = "ok"

\* one client, calls in sequence
Init == InitWith({1}, MaxInit, SeqCap, MaxCalls) /\ Built

\* one call on a newly built instance, against a longer listing
InitWalk == InitWith({1}, WalkInit, MaxCap, 1) /\ Built

\* NumClients goroutines sharing the instance
InitConc == InitWith(Clients, ConcInit, SeqCap, ConcCalls) /\ Built

\* one client, a listing with several versions, calls in sequence
InitAgain == InitWith({1}, AgainInit, SeqCap, AgainCalls) /\ Built

\* before New is called, with any type in the configuration
InitNew ==
  /\ InitWith({}, NewInit, SeqCap, NewCalls)
  /\ cfgType \in Types
  /\ archive = "unbuilt"
  /\ newErr = "ok"

Next ==
  \E p \in Clients :
    \/ Call(p, "History", BadArtifact)
    \/ \E v \in Artifacts \cup {BadArtifact} : Call(p, "Put", v)
    \/ AcquireHistory(p)
    \/ AcquirePut(p)
    \/ ListFails(p)
    \/ WalkPage(p)
    \/ \E ok \in BOOLEAN : PutObject(p, ok)

Spec == Init /\ [][Next]_vars

SpecWalk == InitWalk /\ [][Next]_vars

SpecConc == InitConc /\ [][Next]_vars

SpecAgain == InitAgain /\ [][Next]_vars

\* NumClients goroutines sharing an instance on a listing with several
\* versions
InitLive == InitWith(Clients, AgainInit, SeqCap, ConcCalls) /\ Built

\* every goroutine is scheduled, a.m.Lock() returns once the mutex is free,
\* and every backend call a walk or a write is waiting for returns
Fairness ==
  \A p \in Clients :
    /\ WF_vars(AcquireHistory(p))
    /\ WF_vars(AcquirePut(p))
    /\ WF_vars(WalkPage(p))
    /\ WF_vars(\E ok \in BOOLEAN : PutObject(p, ok))

SpecLive == InitLive /\ [][Next]_vars /\ Fairness

\* Check on a resource whose archive is the no-op one or an S3 instance
InitCheck ==
  /\ InitWith({}, 0, 0, 0)
  /\ archive \in {"Empty", "S3"}
  /\ cfgType = IF archive = "S3" THEN "s3" ELSE "empty"
  /\ newErr = "ok"

SpecCheck == InitCheck /\ [][NextCheck]_vars

\* the program from the call of New on
NextNew ==
  \/ \E loads \in BOOLEAN : New(loads)
  \/ EmptyHistory(1)
  \/ \E v \in Artifacts \cup {BadArtifact} : EmptyPut(1, v)
  \/ Next

SpecNew == InitNew /\ [][NextNew]_vars


\* -------------------------------------------------- vocabulary of the claims
\* bodies of the versions stored under Key, newest first
KeyListing(bkt) ==
  LET ks == SelectSeq(bkt, LAMBDA it : it.key = Key) IN
  [i \in 1..Len(ks) |-> ks[i].body]

Distinct(seq) == \A i, j \in 1..Len(seq) : i # j => seq[i] # seq[j]

\* seq back to front, by index
Backwards(seq) == [i \in 1..Len(seq) |-> seq[Len(seq) + 1 - i]]

\* the first k entries of seq
Prefix(seq, k) == [i \in 1..k |-> seq[i]]

Count(seq, x) == Cardinality({i \in 1..Len(seq) : seq[i] = x})

\* seq without the later repetitions of an entry
RECURSIVE FirstOccurrences(_)
FirstOccurrences(seq) ==
  IF seq = <<>> THEN <<>>
  ELSE LET init == SubSeq(seq, 1, Len(seq) - 1)
           x    == seq[Len(seq)]
       IN  IF Count(init, x) > 0 THEN FirstOccurrences(init)
           ELSE Append(FirstOccurrences(init), x)

Returned(l, op) == l.pc = "ret" /\ l.op = op
Succeeded(l, op) == Returned(l, op) /\ l.err = "ok"

\* ----------------------------------------------------------------- claims

\* C1 (SpecWalk): a successful History on an instance whose fingerprint set
\* is empty and that has no cap, against a listing whose versions of the key
\* have pairwise distinct bodies, returns exactly those bodies oldest first,
\* however the backend cut the listing into pages.
C1_Ordering ==
  \A p \in Clients :
    LET l == loc[p] IN
    (Succeeded(l, "History") /\ l.sums0 = {} /\ l.max0 = 0
       /\ Distinct(KeyListing(bucket)))
    => l.result = Backwards(KeyListing(bucket))

C1_Witness ==
  \E p \in Clients :
    LET l == loc[p] IN
    /\ Succeeded(l, "History") /\ l.sums0 = {} /\ l.max0 = 0
    /\ Distinct(KeyListing(bucket))
    /\ Len(l.result) >= 3 /\ l.nList >= 2
    /\ \E i \in 1..Len(bucket) : bucket[i].key = Sibling

\* C2 (SpecWalk): with max_versions = k > 0 and N > k versions of the key of
\* pairwise distinct content, History on a newly built instance returns
\* exactly k entries: the k newest versions, oldest first.
C2_CapEnforcement ==
  \A p \in Clients :
    LET l  == loc[p]
        kl == KeyListing(bucket)
    IN
    (Succeeded(l, "History") /\ l.sums0 = {} /\ ~l.fetched0
       /\ configured > 0 /\ l.max0 = configured
       /\ Len(kl) > configured /\ Distinct(kl))
    => /\ Len(l.result) = configured
       /\ l.result = Backwards(Prefix(kl, configured))

C2_Witness ==
  \E p \in Clients :
    LET l  == loc[p]
        kl == KeyListing(bucket)
    IN
    /\ Succeeded(l, "History") /\ l.sums0 = {} /\ ~l.fetched0
    /\ configured = 2 /\ l.max0 = configured
    /\ Len(kl) > configured /\ Distinct(kl)
    /\ l.nList >= 2 /\ Len(l.result) = 2
    /\ bucket[2].key = Sibling


\* how many versions this instance has written with the body of artifact v
Written(v) ==
  Cardinality({i \in 1..Len(bucket) :
                 bucket[i].vid > built /\ bucket[i].body = Marshal(v)})

\* client p's History has returned successfully after two (or more)
\* successful Puts of v on the instance, the last write being one of them
AfterTwoPuts(p, v) ==
  /\ Succeeded(loc[p], "History")
  /\ Written(v) >= 2
  /\ bucket[1].body = Marshal(v)

\* C3 as stated: after two successful Puts of the same artifact, the next
\* History returns exactly one entry with that content, whatever the version
\* stream held at the start.
C3_AsStated ==
  \A p \in Clients : \A v \in Artifacts :
    AfterTwoPuts(p, v) => Count(loc[p].result, Marshal(v)) = 1

\* C3 (Spec), amended: a History that follows two successful Puts of the same
\* artifact, with no other version written since, returns that content
\* exactly once when its fingerprint was not in the fingerprint set at the
\* start of the History, and does not return it when it was.
C3_DedupIdempotence ==
  \A p \in Clients : \A v \in Artifacts :
    AfterTwoPuts(p, v) =>
      Count(loc[p].result, Marshal(v)) =
        IF Md5Hex(Marshal(v)) \in loc[p].sums0 THEN 0 ELSE 1

C3_Witness ==
  \E p \in Clients : \E v \in Artifacts :
    /\ AfterTwoPuts(p, v)
    /\ Md5Hex(Marshal(v)) \notin loc[p].sums0
    /\ Count(KeyListing(bucket), Marshal(v)) >= 2
    /\ Count(loc[p].result, Marshal(v)) = 1

\* C4 as stated: after every Put that returns without error the fingerprint
\* of the serialized artifact is in the fingerprint set.
C4_PutRecordsFingerprint ==
  \A p \in Clients :
    Succeeded(loc[p], "Put") => Md5Hex(loc[p].b) \in sums

\* C5 as stated: on an instance configured with max_versions = k > 0 every
\* successful History returns at most k entries, whatever calls came before.
C5_CapAlways ==
  \A p \in Clients :
    (Succeeded(loc[p], "History") /\ configured > 0)
    => Len(loc[p].result) <= configured


\* C6 (SpecConc): at most one History or Put of the instance is between
\* acquiring and releasing a.m at any time, and the mutex is locked exactly
\* while one is.
C6_MutualExclusion ==
  /\ Cardinality({p \in Clients : Holding(loc[p])}) <= 1
  /\ m <=> (\E p \in Clients : Holding(loc[p]))

C6_Witness ==
  \E p, q \in Clients :
    /\ p # q
    /\ Holding(loc[p]) /\ loc[p].nList >= 1
    /\ loc[q].pc = "lock"

\* C7 as stated: once N concurrent Puts with pairwise distinct payloads have
\* all returned successfully, the fingerprint set holds the N fingerprints of
\* those payloads.
C7_ConcurrentPuts ==
  (/\ \A p \in Clients : Succeeded(loc[p], "Put") /\ loc[p].overlap
   /\ \A p, q \in Clients : p # q => loc[p].b # loc[q].b)
  => \A p \in Clients : Md5Hex(loc[p].b) \in sums

\* what a History on an instance with an empty fingerprint set and no cap
\* has to return: every distinct body stored under the key, oldest first,
\* each at the place of its newest version
AllDeduplicated(bkt) == Backwards(FirstOccurrences(KeyListing(bkt)))

\* C8 as stated: when the backend reports more pages together with an empty
\* or absent next-key marker, History terminates, resumes after the last item
\* seen and returns all matching versions deduplicated by content.
C8_PaginationContinuation ==
  \A p \in Clients :
    LET l == loc[p] IN
    /\ l.op = "History" => l.pc # "panic"
    /\ (Succeeded(l, "History") /\ l.dangling /\ l.sums0 = {} /\ l.max0 = 0)
       => l.result = AllDeduplicated(bucket)

\* C8, the part the code keeps: with a next-key marker that is present and
\* empty, the walk resumes after the last item of the page and the result is
\* complete.
C8_EmptyMarker ==
  \A p \in Clients :
    LET l == loc[p] IN
    (Succeeded(l, "History") /\ l.dangling /\ l.sums0 = {} /\ l.max0 = 0)
    => l.result = AllDeduplicated(bucket)

\* C9 (Spec): a History in which a ListObjectVersions or GetObject call
\* failed returns the error with an empty result, and leaves the fetched
\* flag as it was when the call began.
C9_NoPartialResult ==
  \A p \in Clients :
    LET l == loc[p] IN
    (Returned(l, "History") /\ l.err # "ok")
    => l.result = <<>> /\ fetched = l.fetched0

C9_Witness ==
  \E p \in Clients :
    LET l == loc[p] IN
    /\ Returned(l, "History") /\ l.err = "get"
    /\ l.nList >= 2 /\ l.nGet >= 2 /\ sums # l.sums0
    /\ l.result = <<>>

\* C10 (Spec): a Put whose bootstrap fetch failed returns the error without
\* having called PutObject and with the fetched flag still false; and the Put
\* that follows such a Put (and serializes its artifact) runs the bootstrap
\* fetch again.
C10_BootstrapFailure ==
  \A p \in Clients :
    LET l == loc[p] IN
    /\ (l.op = "Put" /\ l.boot /\ l.herr # "ok")
       => /\ l.pc = "ret" /\ l.err = "history"
          /\ l.nPut = 0
          /\ ~fetched
    /\ (/\ l.op = "Put" /\ l.pc \in {"walk", "put", "ret"} /\ l.b # NoBytes
        /\ l.prev.op = "Put" /\ l.prev.err = "history")
       => l.boot

C10_Witness ==
  \E p \in Clients :
    LET l == loc[p] IN
    /\ l.op = "Put" /\ l.pc = "ret" /\ l.boot /\ l.herr = "get"
    /\ l.err = "history" /\ l.nPut = 0 /\ ~fetched
    /\ l.prev.op = "Put" /\ l.prev.err = "history"

\* the versions of the listing stored under a key other than the archive's
Siblings(bkt) == {i \in 1..Len(bkt) : bkt[i].key # Key}

\* the bodies stored in the listing under another key
SiblingBodies(bkt) == {bkt[i].body : i \in Siblings(bkt)}

\* how many distinct bodies the listing holds under the archive's key
DistinctKeyBodies(bkt) == Cardinality(KeyBodies(bkt))

\* C11 (SpecWalk): whatever the prefix listing holds and however it is cut
\* into pages, a History never downloads a version stored under another key
\* (it makes at most one GetObject per version of its own key), never returns
\* its body, never adds its fingerprint to the fingerprint set, and never
\* counts it toward the cap.
C11_KeyIsolation ==
  \A p \in Clients :
    LET l == loc[p] IN
    l.op = "History" =>
      /\ l.nGet <= Len(KeyListing(bucket))
      /\ \A b \in SiblingBodies(bucket) :
           /\ Count(l.result, b) = 0
           /\ Md5Hex(b) \notin sums
      /\ (Succeeded(l, "History") /\ l.sums0 = {} /\ l.max0 > 0)
         => Len(l.result) = Min(l.max0, DistinctKeyBodies(bucket))

C11_Witness ==
  \E p \in Clients :
    LET l == loc[p] IN
    /\ Succeeded(l, "History") /\ l.sums0 = {} /\ l.max0 = 2
    /\ Len(bucket) = 4
    /\ bucket[1].key = Sibling /\ bucket[3].key = Sibling
    /\ Len(KeyListing(bucket)) = 2 /\ l.nGet = 2
    /\ Len(l.result) = 2
    /\ l.nList >= 2

\* the bodies stored under the key whose fingerprint is not in the set
Unseen(bkt, set) == {b \in KeyBodies(bkt) : Md5Hex(b) \notin set}

PutProceeded(l) == l.op = "Put" /\ l.b # NoBytes /\ l.herr = "ok"

\* C13 (Spec): a Put whose serialization and bootstrap fetch (if any)
\* succeeded has, when it returns, made exactly one PutObject call, whether
\* or not the fingerprint of its bytes was in the fingerprint set; it returns
\* what that call returned, and when that call succeeded the newest version
\* under the key carries the serialized bytes.
C13_ExactlyOneWrite ==
  \A p \in Clients :
    LET l == loc[p] IN
    (Returned(l, "Put") /\ PutProceeded(l)) =>
      /\ l.nPut = 1
      /\ l.perr \in {"ok", "put"}
      /\ l.err = l.perr
      /\ l.perr = "ok" =>
           /\ bucket # <<>>
           /\ bucket[1] = Item(Key, Len(bucket), l.b)

C13_Witness ==
  \E p \in Clients :
    LET l == loc[p] IN
    /\ Returned(l, "Put") /\ PutProceeded(l)
    /\ Md5Hex(l.b) \in sums
    /\ ~l.boot
    /\ l.nPut = 1 /\ l.err = "ok"
    /\ Count(KeyListing(bucket), l.b) >= 2

\* C15 (SpecWalk): a History on a newly built instance against a key that
\* holds no versions, the listing answering with an empty page (flagged as
\* truncated or not), returns an empty result and no error after exactly one
\* ListObjectVersions call and no GetObject call, with the fetched flag set;
\* the walk never goes on to a second page.
C15_EmptyBackend ==
  \A p \in Clients :
    LET l == loc[p] IN
    (l.op = "History" /\ bucket = <<>> /\ ~l.fetched0 /\ l.sums0 = {}) =>
      /\ l.pc # "panic"
      /\ l.pc = "walk" => l.nList = 0
      /\ (l.pc = "ret" /\ l.err # "list") =>
           /\ l.err = "ok"
           /\ l.result = <<>>
           /\ l.nList = 1 /\ l.nGet = 0
           /\ fetched

C15_Witness ==
  \E p \in Clients :
    LET l == loc[p] IN
    /\ Succeeded(l, "History") /\ bucket = <<>> /\ ~l.fetched0
    /\ l.truncatedEmpty
    /\ l.result = <<>> /\ l.nList = 1 /\ fetched

\* a Put that holds (or held) the lock with its artifact serialized
PutEntered(l) ==
  l.op = "Put" /\ l.pc \in {"walk", "put", "ret"} /\ l.b # NoBytes

\* a Put whose bootstrap fetch has completed without error
Bootstrapped(l) ==
  l.op = "Put" /\ l.boot /\ l.pc \in {"put", "ret"} /\ l.herr = "ok"

\* a Put that holds (or held) the lock
PutLocked(l) == l.op = "Put" /\ l.pc \in {"walk", "put", "ret"}

\* C17 as stated: every Put runs the bootstrap fetch exactly when the fetched
\* flag was false as it took the lock.
C17_AsStated ==
  \A p \in Clients :
    LET l == loc[p] IN
    PutLocked(l) => (l.boot <=> ~l.fetched0)

\* C17 (SpecConc), amended: a Put whose artifact serializes runs the
\* bootstrap fetch exactly when the fetched flag was false as it took the
\* lock (a Put whose artifact does not serialize returns before the test);
\* a Put that found the flag set (a History or a bootstrap fetch of the
\* instance had succeeded) makes no ListObjectVersions and no GetObject
\* call; and among the Puts of all goroutines at most one has completed a
\* bootstrap fetch successfully.
C17_LazyBootstrap ==
  /\ \A p \in Clients :
       LET l == loc[p] IN
       /\ PutEntered(l) => (l.boot <=> ~l.fetched0)
       /\ (PutLocked(l) /\ l.fetched0) => (l.nList = 0 /\ l.nGet = 0)
  /\ Cardinality({p \in Clients : Bootstrapped(loc[p])}) <= 1

C17_Witness ==
  \E p, q \in Clients :
    /\ p # q
    /\ Succeeded(loc[p], "Put") /\ Bootstrapped(loc[p]) /\ loc[p].nList = 1
    /\ Succeeded(loc[q], "Put") /\ loc[q].overlap
    /\ loc[q].fetched0 /\ ~loc[q].boot /\ loc[q].nList = 0

\* the contents, not in the fingerprint set, that the first i entries of the
\* listing hold under the key
UnseenUpTo(bkt, set, i) ==
  {bkt[j].body : j \in {x \in 1..i : bkt[x].key = Key
                                      /\ Md5Hex(bkt[x].body) \notin set}}

\* the place in the listing of the version whose download brings the number
\* of accumulated artifacts to k
CapPos(bkt, set, k) ==
  CHOOSE i \in 1..Len(bkt) :
    /\ Cardinality(UnseenUpTo(bkt, set, i)) = k
    /\ Cardinality(UnseenUpTo(bkt, set, i - 1)) < k

\* how many of the first i entries of the listing are stored under the key
KeyCount(bkt, i) == Cardinality({j \in 1..i : bkt[j].key = Key})

\* C18 (SpecWalk): a History with MaxVersions = k > 0 against a listing that
\* holds at least k contents not yet seen returns having downloaded the
\* versions of its key up to the one that brought the count to k and none
\* after it, and having listed no page that starts after that version.
C18_EarlyStop ==
  \A p \in Clients :
    LET l == loc[p] IN
    (Succeeded(l, "History") /\ l.max0 > 0
       /\ Cardinality(Unseen(bucket, l.sums0)) >= l.max0)
    => LET c == CapPos(bucket, l.sums0, l.max0) IN
       /\ l.nGet = KeyCount(bucket, c)
       /\ After(bucket, l.marker) < c
       /\ l.nList <= c

C18_Witness ==
  \E p \in Clients :
    LET l == loc[p] IN
    /\ Succeeded(l, "History") /\ l.max0 = 2
    /\ Cardinality(Unseen(bucket, l.sums0)) >= l.max0
    /\ Len(bucket) = 4
    /\ CapPos(bucket, l.sums0, l.max0) = 2
    /\ bucket[3].key = Key /\ bucket[4].key = Key
    /\ l.nList = 2 /\ l.nGet = 2

\* C19 as stated: a Put that ran the bootstrap fetch leaves the MaxVersions
\* that later History calls of the instance use as it was before the Put.
C19_BootstrapFrame ==
  \A p \in Clients :
    LET l == loc[p] IN
    (Returned(l, "Put") /\ l.boot) => maxVersions = l.max0

\* C20 as stated: a History that returns an error leaves the fingerprint set
\* and the fetched flag as they were when it began.
C20_FailedHistoryFrame ==
  \A p \in Clients :
    LET l == loc[p] IN
    (Returned(l, "History") /\ l.err # "ok")
    => sums = l.sums0 /\ fetched = l.fetched0

\* C14 (SpecNew): on the no-op archive every Put, whatever the artifact (one
\* that cannot be serialized included), returns no error, and every History,
\* whatever Puts came before it, returns an empty sequence and no error;
\* no call reaches the backend.
C14_NoOpArchive ==
  archive = "Empty" =>
    /\ last.err = "ok"
    /\ \A p \in Clients :
         LET l == loc[p] IN
         l.pc = "ret" =>
           /\ l.err = "ok"
           /\ l.prev.err = "ok"
           /\ l.op = "History" => l.result = <<>>
           /\ l.nList = 0 /\ l.nGet = 0 /\ l.nPut = 0
    /\ Len(bucket) = built

C14_Witness ==
  \E p \in Clients :
    LET l == loc[p] IN
    /\ archive = "Empty" /\ cfgType = ""
    /\ Succeeded(l, "History") /\ l.result = <<>>
    /\ l.prev.op = "Put" /\ l.prev.arg = BadArtifact /\ l.prev.err = "ok"
    /\ budget = 0

\* C16 as stated: New returns the no-op archive for an unset type or "empty",
\* the backend-bound archive for "s3", and for any other type no archive and
\* an error naming the type.
C16_AsStated ==
  archive # "unbuilt" =>
    CASE cfgType \in {"", "empty"} -> archive = "Empty" /\ newErr = "ok"
      [] cfgType = "s3"            -> archive = "S3" /\ newErr = "ok"
      [] OTHER -> archive = "nil" /\ newErr = Unsupported(cfgType)

\* C16 (SpecNew), amended: as stated for every type but "s3"; for "s3" New
\* returns the backend-bound archive and no error, or, when the AWS
\* configuration fails to load, that error and a nil instance.
C16_Factory ==
  archive # "unbuilt" =>
    CASE cfgType \in {"", "empty"} -> archive = "Empty" /\ newErr = "ok"
      [] cfgType = "s3" ->
           /\ newErr \in {"ok", "error loading aws config"}
           /\ archive = IF newErr = "ok" THEN "S3" ELSE "nilS3"
      [] OTHER -> archive = "nil" /\ newErr = Unsupported(cfgType)

C16_Witness ==
  /\ cfgType = "s3"
  /\ archive = "nilS3"
  /\ newErr = "error loading aws config"
  /\ \A p \in Clients : loc[p].pc = "off"

\* client p's History has returned successfully, and the call that returned
\* before it was a successful History too: the listing is the same for both
SecondHistory(p) ==
  /\ Succeeded(loc[p], "History")
  /\ loc[p].prev.op = "History" /\ loc[p].prev.err = "ok"

\* C21 as stated: no fingerprint appears in the results of two successful
\* History calls of the instance, and a History that follows a successful
\* History against the same listing returns an empty sequence.
C21_AsStated ==
  /\ \A f \in DOMAIN returnedIn : returnedIn[f] <= 1
  /\ \A p \in Clients : SecondHistory(p) => loc[p].result = <<>>

\* C21 (SpecAgain), amended: no fingerprint appears in the results of two
\* successful History calls of the instance; a History returns no content
\* whose fingerprint was in the fingerprint set when it began; and a History
\* that follows a successful History against the same listing returns an
\* empty sequence when that earlier call did not stop at the cap.
C21_OncePerInstance ==
  /\ \A f \in DOMAIN returnedIn : returnedIn[f] <= 1
  /\ \A p \in Clients :
       LET l == loc[p] IN
       /\ Succeeded(l, "History") =>
            \A i \in 1..Len(l.result) : Md5Hex(l.result[i]) \notin l.sums0
       /\ (SecondHistory(p) /\ ~l.prev.capped) => l.result = <<>>

C21_Witness ==
  \E p \in Clients :
    /\ SecondHistory(p) /\ ~loc[p].prev.capped
    /\ loc[p].result = <<>>
    /\ Len(KeyListing(bucket)) = 2
    /\ Cardinality({f \in DOMAIN returnedIn : returnedIn[f] = 1}) = 2

\* C22 (Spec): no step removes a fingerprint from the fingerprint set, no
\* step clears the fetched flag, and the flag is set only on an instance one
\* of whose history walks has returned without an error.
C22_Monotone ==
  /\ [][sums \subseteq sums' /\ (fetched => fetched')]_vars
  /\ [](fetched => walked)

C22_Witness ==
  \E p \in Clients :
    LET l == loc[p] IN
    /\ Returned(l, "History") /\ l.err = "get"
    /\ l.fetched0 /\ fetched /\ walked
    /\ l.sums0 # {} /\ l.sums0 # sums

\* C23 as stated: a call that has returned does not hold the lock, the lock
\* is free when no call is between acquiring and returning, and every call
\* that is waiting for the lock eventually returns.
C23_EventuallyReturns ==
  /\ [](m <=> (\E p \in Clients : Holding(loc[p])))
  /\ \A p \in Clients : (loc[p].pc = "lock") ~> (loc[p].pc = "ret")

\* C23, the part the code keeps: a call that is waiting for the lock
\* eventually returns unless a walk of the instance panics.
C23_ReturnsUnlessPanic ==
  /\ [](m <=> (\E p \in Clients : Holding(loc[p])))
  /\ \A p \in Clients :
       (loc[p].pc = "lock") ~> (loc[p].pc = "ret" \/ ~NoPanic)

\* the distinct contents stored under the key, newest first, each at the
\* place of its newest version, cut to the cap when there is one
NewestDistinct(bkt, max) ==
  LET d == FirstOccurrences(KeyListing(bkt))
      k == IF max > 0 THEN Min(max, Len(d)) ELSE Len(d)
  IN  Prefix(d, k)

\* C24 (SpecWalk): a successful History on a fresh instance returns each
\* content stored under the key once, placed where its newest version stands
\* among the returned entries, oldest first; with a cap k > 0 it returns the
\* k newest distinct contents, repeated contents not using up the cap.
C24_RepeatedContent ==
  \A p \in Clients :
    LET l == loc[p] IN
    (Succeeded(l, "History") /\ l.sums0 = {} /\ ~l.fetched0)
    => l.result = Backwards(NewestDistinct(bucket, l.max0))

C24_Witness ==
  \E p \in Clients : \E a, b \in Bodies :
    LET l == loc[p] IN
    /\ Succeeded(l, "History") /\ l.sums0 = {} /\ ~l.fetched0
    /\ a # b
    /\ KeyListing(bucket) = <<a, a, b, a>>
    /\ l.max0 = 2
    /\ l.result = <<b, a>>
    /\ l.nGet = 3

\* the errors Check returns for a step that is not an archive call
OtherErrors ==
  (ConfigOutcomes \cup DataOutcomes \cup DiffOutcomes
     \cup {"error executing query", "error unmarshalling historic version"})
  \ {"ok", "data", "nil", "NoMatch", "FullMatch"}

\* C25 (SpecCheck): Check calls History only when no previous version was
\* supplied, and after a failed History it goes on with no historic version;
\* it calls Put only after appending the new version, and after a failed Put
\* it returns the versions it computed and no error.  Every error Check
\* returns is the error of a step other than the two archive calls.
C25_ArchiveErrorsNotFatal ==
  /\ chk.herr # "none" => ~chk.given
  /\ chk.herr = "history" =>
       /\ chk.err # "error unmarshalling historic version"
       /\ chk.pc \notin {"done", "start", "history"} => chk.versions = <<>>
       /\ (chk.pc = "done" /\ chk.err = "ok") => chk.ret \in {<<>>, <<"next">>}
  /\ chk.perr # "none" =>
       /\ chk.pc = "done" /\ chk.err = "ok"
       /\ chk.ret = chk.versions
       /\ chk.ret # <<>> /\ chk.ret[Len(chk.ret)] = "next"
  /\ chk.pc = "done" => chk.err \in {"ok"} \cup OtherErrors

C25_Witness ==
  /\ archive = "S3"
  /\ chk.pc = "done"
  /\ chk.herr = "history" /\ chk.perr = "put"
  /\ chk.err = "ok" /\ chk.ret = <<"next">>

====
